---- MODULE Spec2Model ----
(***************************************************************************)
(* Sudoku solver of a5.py: the Board (candidate lists, update with         *)
(* elimination, most-constrained cell, failure and goal tests) and the two *)
(* search drivers DFS and BFS, run by the caller test_dfs_or_bfs on a      *)
(* board seeded from a list of moves.                                      *)
(*                                                                         *)
(* Boards are objects on a heap (address -> Board), so that the frontier   *)
(* holds references and copy.deepcopy is an allocation, as in Python.      *)
(* A cell is [int |-> d] (an assigned digit) or [list |-> <<...>>] (the    *)
(* candidate list); isinstance(cell, list) is "list" \in DOMAIN cell.      *)
(***************************************************************************)
EXTENDS Integers, Sequences, FiniteSets, TLC

VARIABLES
    moves,      \* the clue triples given to test_dfs_or_bfs (0-based r, c)
    use_dfs,    \* test_dfs_or_bfs's flag: TRUE runs DFS, FALSE runs BFS
    mi,         \* position of `for mv in moves` (1-based index of next move)
    pc,         \* "seed" | "loop" | "branch" | "done" | "raised"
    heap,       \* address -> Board object
    b,          \* address of the seed board of the current run
    frontier,   \* the Stack / Queue: a sequence of addresses, oldest first
    candidate,  \* address of the popped board (None before the first pop)
    r,          \* row of the branching cell
    c,          \* column of the branching cell
    choices,    \* candidate.rows[r][c] as read at line 133 / 153
    vi,         \* position of `for v in choices` (1-based)
    solution    \* what DFS and BFS returned: [DFS |-> ..., BFS |-> ...]

vars == <<moves, use_dfs, mi, pc, heap, b, frontier, candidate, r, c,
          choices, vi, solution>>

(***************************************************************************)
(* Bounds of the model and the program's constants.                        *)
(***************************************************************************)
MaxHoles == 4       \* at most this many clues of the solved grid are left out
MaxExtra == 1       \* at most this many extra moves precede the clues

size == 9           \* Board.size
box == 3            \* side of a subgrid (the 3 of subgrid_coordinates)
best_len0 == 10     \* initial best_len of find_most_constrained_cell

None == 0           \* Python's None, as an address that is never allocated

Idx == 0 .. (size - 1)
Digits == 1 .. size

(***************************************************************************)
(* remove_if_exists, lines 8-16.                                           *)
(***************************************************************************)
IsList(cell) == "list" \in DOMAIN cell

Contains(lst, elem) == \E i \in 1 .. Len(lst) : lst[i] = elem

\* list.remove: drops the first occurrence only
ListRemove(lst, elem) ==
    LET i == CHOOSE k \in 1 .. Len(lst) :
                 lst[k] = elem /\ \A j \in 1 .. (k - 1) : lst[j] # elem
    IN  [k \in 1 .. (Len(lst) - 1) |-> IF k < i THEN lst[k] ELSE lst[k + 1]]

\* remove_if_exists that drops the head of the list instead of elem (del lst[0])
remove_if_exists_head(lst, elem) ==
    IF IsList(lst) /\ Contains(lst.list, elem)
    THEN [list |-> Tail(lst.list)]
    ELSE lst

remove_if_exists(lst, elem) ==
    IF IsList(lst) /\ Contains(lst.list, elem)
    THEN [list |-> ListRemove(lst.list, elem)]
    ELSE lst

(***************************************************************************)
(* Board, lines 19-119.                                                    *)
(***************************************************************************)
\* list(range(1, 10))
AllCandidates == [k \in 1 .. size |-> k]

\* Board.__init__
NewBoard ==
    [num_nums_placed |-> 0,
     rows |-> [row \in Idx |-> [col \in Idx |-> [list |-> AllCandidates]]]]

subgrid_coordinates(row, col) ==
    LET top_r == (row \div box) * box
        left_c == (col \div box) * box
    IN  {<<top_r + dr, left_c + dc>> : dr \in 0 .. (box - 1), dc \in 0 .. (box - 1)}

\* One elimination loop of update: remove_if_exists on every cell of `coords`.
Eliminate(rows, coords, assignment) ==
    [row \in Idx |-> [col \in Idx |->
        IF <<row, col>> \in coords
        THEN remove_if_exists(rows[row][col], assignment)
        ELSE rows[row][col]]]

\* update without the row loop of lines 114-115
update_no_row_pass(board, row, column, assignment) ==
    LET set == [board.rows EXCEPT ![row][column] = [int |-> assignment]]
        colpass == Eliminate(set, {<<rr, column>> : rr \in Idx}, assignment)
        subpass == Eliminate(colpass, subgrid_coordinates(row, column), assignment)
    IN  [num_nums_placed |-> board.num_nums_placed + 1, rows |-> subpass]

\* update that forgets line 107, the increment of the counter
update_no_count(board, row, column, assignment) ==
    LET set == [board.rows EXCEPT ![row][column] = [int |-> assignment]]
        colpass == Eliminate(set, {<<rr, column>> : rr \in Idx}, assignment)
        rowpass == Eliminate(colpass, {<<row, cc>> : cc \in Idx}, assignment)
        subpass == Eliminate(rowpass, subgrid_coordinates(row, column), assignment)
    IN  [num_nums_placed |-> board.num_nums_placed, rows |-> subpass]

\* update with a double-assignment check: an Assigned cell is not counted again
update_counts_once(board, row, column, assignment) ==
    LET set == [board.rows EXCEPT ![row][column] = [int |-> assignment]]
        colpass == Eliminate(set, {<<rr, column>> : rr \in Idx}, assignment)
        rowpass == Eliminate(colpass, {<<row, cc>> : cc \in Idx}, assignment)
        subpass == Eliminate(rowpass, subgrid_coordinates(row, column), assignment)
    IN  [num_nums_placed |-> IF IsList(board.rows[row][column])
                             THEN board.num_nums_placed + 1
                             ELSE board.num_nums_placed,
         rows |-> subpass]

update(board, row, column, assignment) ==
    LET set == [board.rows EXCEPT ![row][column] = [int |-> assignment]]
        colpass == Eliminate(set, {<<rr, column>> : rr \in Idx}, assignment)
        rowpass == Eliminate(colpass, {<<row, cc>> : cc \in Idx}, assignment)
        subpass == Eliminate(rowpass, subgrid_coordinates(row, column), assignment)
    IN  [num_nums_placed |-> board.num_nums_placed + 1, rows |-> subpass]

\* the inner loop with `<=` for `<` at line 82: the last minimum wins
RECURSIVE ScanRow_last_wins(_, _, _, _)
ScanRow_last_wins(rows, row, col, best) ==
    IF col = size THEN best
    ELSE LET cell == rows[row][col]
         IN  IF IsList(cell) /\ Len(cell.list) <= best.len
             THEN ScanRow_last_wins(rows, row, col + 1,
                                    [len |-> Len(cell.list), r |-> row, c |-> col])
             ELSE ScanRow_last_wins(rows, row, col + 1, best)

\* The inner loop of find_most_constrained_cell (for c in range(self.size)),
\* from column col on, with the best so far.
RECURSIVE ScanRow(_, _, _, _)
ScanRow(rows, row, col, best) ==
    IF col = size THEN best
    ELSE LET cell == rows[row][col]
         IN  IF IsList(cell) /\ Len(cell.list) < best.len
             THEN ScanRow(rows, row, col + 1, [len |-> Len(cell.list), r |-> row, c |-> col])
             ELSE ScanRow(rows, row, col + 1, best)

\* The outer loop (for r in range(self.size)), from row on.
RECURSIVE ScanCells(_, _, _)
ScanCells(rows, row, best) ==
    IF row = size THEN best
    ELSE ScanCells(rows, row + 1, ScanRow(rows, row, 0, best))

\* find_most_constrained_cell with best_r, best_c starting at the last cell
find_most_constrained_cell_from_last(board) ==
    LET best == ScanCells(board.rows, 0, [len |-> best_len0, r |-> size - 1, c |-> size - 1])
    IN  <<best.r, best.c>>

find_most_constrained_cell(board) ==
    LET best == ScanCells(board.rows, 0, [len |-> best_len0, r |-> 0, c |-> 0])
    IN  <<best.r, best.c>>

\* `cell == []`: true of the empty list only, never of an int
EqEmptyList(cell) == cell = [list |-> <<>>]

\* the inner loop of failure_test (for cell in row), from column col on
RECURSIVE FailureScanRow(_, _)
FailureScanRow(cells, col) ==
    IF col = size THEN FALSE
    ELSE IF EqEmptyList(cells[col]) THEN TRUE
    ELSE FailureScanRow(cells, col + 1)

\* the outer loop (for row in self.rows), from row on
RECURSIVE FailureScan(_, _)
FailureScan(rows, row) ==
    IF row = size THEN FALSE
    ELSE IF FailureScanRow(rows[row], 0) THEN TRUE
    ELSE FailureScan(rows, row + 1)

\* failure_test that also rejects a cell with a single candidate left
failure_test_len1(board) ==
    \E row \in Idx : \E col \in Idx :
        IsList(board.rows[row][col]) /\ Len(board.rows[row][col].list) <= 1

failure_test(board) == FailureScan(board.rows, 0)

\* goal_test off by one: 80 placed cells already count as solved
goal_test_80(board) == board.num_nums_placed >= size * size - 1

goal_test(board) == board.num_nums_placed = size * size

(***************************************************************************)
(* Stack and Queue of stack_and_queue (not part of the sources at hand):   *)
(* push adds at the end; Stack.pop takes the most recently pushed entry,   *)
(* Queue.pop the earliest pushed one.                                      *)
(***************************************************************************)
push(items, x) == Append(items, x)

is_empty(items) == items = <<>>

StackTop(items) == items[Len(items)]

StackRest(items) == SubSeq(items, 1, Len(items) - 1)

QueueFront(items) == items[1]

QueueRest(items) == SubSeq(items, 2, Len(items))

\* a search that takes the earliest pushed entry whatever the container
PopItem_front(dfs, items) == QueueFront(items)

\* the entry the frontier of the current search hands out, and what is left
PopItem(dfs, items) == IF dfs THEN StackTop(items) ELSE QueueFront(items)

PopRest(dfs, items) == IF dfs THEN StackRest(items) ELSE QueueRest(items)

(***************************************************************************)
(* The heap: allocation, copy.deepcopy and reclamation of unreferenced     *)
(* boards.                                                                 *)
(***************************************************************************)
FreshAddr(h) == CHOOSE a \in 1 .. (Cardinality(DOMAIN h) + 1) : a \notin DOMAIN h

\* no copy at all: the "clone" is the popped board itself
alias_copy(h, a) == [addr |-> a, heap |-> h]

\* copy.deepcopy(candidate): a new object, equal to the original, sharing nothing
deepcopy(h, a) ==
    LET n == FreshAddr(h)
    IN  [addr |-> n, heap |-> [x \in DOMAIN h \cup {n} |-> IF x = n THEN h[a] ELSE h[x]]]

SeqRange(s) == {s[i] : i \in 1 .. Len(s)}

\* objects no variable refers to any more are dropped
Reclaim(h, live) == [x \in DOMAIN h \cap live |-> h[x]]

(***************************************************************************)
(* The inputs: a solved grid, from which up to MaxHoles clues (among       *)
(* HoleCells) are left out, preceded by up to MaxExtra extra moves.        *)
(***************************************************************************)
Solved ==
    << <<4, 7, 2, 6, 8, 3, 5, 1, 9>>,
       <<3, 1, 9, 7, 5, 4, 2, 6, 8>>,
       <<5, 6, 8, 9, 1, 2, 3, 4, 7>>,
       <<1, 4, 3, 5, 6, 7, 8, 9, 2>>,
       <<2, 9, 5, 1, 4, 8, 6, 7, 3>>,
       <<7, 8, 6, 3, 2, 9, 1, 5, 4>>,
       <<6, 2, 4, 8, 9, 5, 7, 3, 1>>,
       <<8, 5, 7, 4, 3, 1, 9, 2, 6>>,
       <<9, 3, 1, 2, 7, 6, 4, 8, 5>> >>

HoleCells == {<<0, 0>>, <<0, 5>>, <<1, 0>>, <<1, 5>>, <<0, 1>>}

ExtraMoves == {<<0, 0, 3>>, <<0, 0, 4>>, <<0, 5, 4>>, <<0, 1, 7>>}

AllClues == [k \in 1 .. (size * size) |->
                <<(k - 1) \div size, (k - 1) % size,
                  Solved[((k - 1) \div size) + 1][((k - 1) % size) + 1]>>]

Keep(holes, mv) == <<mv[1], mv[2]>> \notin holes

CluesWithout(holes) == SelectSeq(AllClues, LAMBDA mv : Keep(holes, mv))

Extras == UNION {[1 .. n -> ExtraMoves] : n \in 0 .. MaxExtra}

\* One more input: clues that repeat no digit among peers and leave no cell
\* without a candidate, yet have no completion: with 7 at (0, 3), the cells
\* (1, 3) and (1, 4) both have 5 as their only candidate.
TrapHoles == {<<0, 1>>, <<0, 3>>, <<1, 3>>, <<1, 4>>, <<2, 1>>, <<3, 3>>}

TrapMove == <<0, 3, 7>>

\* And one more: all 81 clues followed by a move that overwrites (0, 0) with
\* the digit of its row peer (0, 5): the seed holds a repeated digit in row 0.
LateMove == <<0, 0, 3>>

Puzzles ==
    {e \o CluesWithout(h) :
        e \in Extras, h \in {hs \in SUBSET HoleCells : Cardinality(hs) <= MaxHoles}}
    \cup {<<TrapMove>> \o CluesWithout(TrapHoles)}
    \cup {AllClues \o <<LateMove>>}

(***************************************************************************)
(* test_dfs_or_bfs, lines 164-170, called for DFS and then for BFS on the  *)
(* same moves (lines 277-287).                                             *)
(***************************************************************************)
Pending == [status |-> "pending", addr |-> None]

Init ==
    /\ moves \in Puzzles
    /\ use_dfs = TRUE
    /\ mi = 1
    /\ pc = "seed"
    /\ heap = (1 :> NewBoard)
    /\ b = 1
    /\ frontier = <<>>
    /\ candidate = None
    /\ r = 0
    /\ c = 0
    /\ choices = [list |-> <<>>]
    /\ vi = 1
    /\ solution = [DFS |-> Pending, BFS |-> Pending]

\* for mv in moves: b.update(*mv)
SeedMove ==
    /\ pc = "seed"
    /\ mi <= Len(moves)
    /\ heap' = [heap EXCEPT ![b] = update(heap[b], moves[mi][1], moves[mi][2], moves[mi][3])]
    /\ mi' = mi + 1
    /\ UNCHANGED <<moves, use_dfs, pc, b, frontier, candidate, r, c, choices, vi, solution>>

\* (DFS if use_dfs else BFS)(b): stack = Stack(); stack.push(state)
CallSearch ==
    /\ pc = "seed"
    /\ mi > Len(moves)
    /\ frontier' = push(<<>>, b)
    /\ candidate' = None
    /\ pc' = "loop"
    /\ UNCHANGED <<moves, use_dfs, mi, heap, b, r, c, choices, vi, solution>>

Which == IF use_dfs THEN "DFS" ELSE "BFS"

\* the addresses the caller still holds after a search returned `res`
Kept(sol) == {sol.DFS.addr, sol.BFS.addr}

\* The search returned or raised: the caller records the outcome, and after
\* DFS builds a new board for BFS.
Finish(res) ==
    LET sol == [solution EXCEPT ![Which] = res]
    IN  /\ solution' = sol
        /\ frontier' = <<>>
        /\ candidate' = None
        /\ UNCHANGED <<moves, r, c, choices, vi>>
        /\ IF res.status = "raised"
           THEN /\ pc' = "raised"
                /\ heap' = Reclaim(heap, Kept(sol) \cup {b})
                /\ UNCHANGED <<use_dfs, mi, b>>
           ELSE IF use_dfs
           THEN LET h == Reclaim(heap, Kept(sol))
                    n == FreshAddr(h)
                IN  /\ pc' = "seed"
                    /\ use_dfs' = FALSE
                    /\ mi' = 1
                    /\ b' = n
                    /\ heap' = [x \in DOMAIN h \cup {n} |-> IF x = n THEN NewBoard ELSE h[x]]
           ELSE /\ pc' = "done"
                /\ heap' = Reclaim(heap, Kept(sol) \cup {b})
                /\ UNCHANGED <<use_dfs, mi, b>>

(***************************************************************************)
(* DFS, lines 122-139, and BFS, lines 142-158: the same loop over a Stack  *)
(* or a Queue.                                                             *)
(***************************************************************************)
\* while not stack.is_empty() fails: return None
Exhausted ==
    /\ pc = "loop"
    /\ is_empty(frontier)
    /\ Finish([status |-> "None", addr |-> None])

\* candidate = stack.pop(); if candidate.goal_test(): return candidate
PopGoal ==
    /\ pc = "loop"
    /\ ~is_empty(frontier)
    /\ goal_test(heap[PopItem(use_dfs, frontier)])
    /\ Finish([status |-> "board", addr |-> PopItem(use_dfs, frontier)])

\* the popped board fails failure_test's negation: nothing is pushed
PopFailure ==
    /\ pc = "loop"
    /\ ~is_empty(frontier)
    /\ LET p == PopItem(use_dfs, frontier)
       IN  /\ ~goal_test(heap[p])
           /\ failure_test(heap[p])
           /\ candidate' = p
           /\ frontier' = PopRest(use_dfs, frontier)
           /\ heap' = Reclaim(heap, SeqRange(PopRest(use_dfs, frontier)) \cup {p, b} \cup Kept(solution))
    /\ UNCHANGED <<moves, use_dfs, mi, pc, b, r, c, choices, vi, solution>>

\* r, c = candidate.find_most_constrained_cell(); choices = candidate.rows[r][c]
PopExpand ==
    /\ pc = "loop"
    /\ ~is_empty(frontier)
    /\ LET p == PopItem(use_dfs, frontier)
           rc == find_most_constrained_cell(heap[p])
       IN  /\ ~goal_test(heap[p])
           /\ ~failure_test(heap[p])
           /\ IsList(heap[p].rows[rc[1]][rc[2]])
           /\ candidate' = p
           /\ frontier' = PopRest(use_dfs, frontier)
           /\ heap' = Reclaim(heap, SeqRange(PopRest(use_dfs, frontier)) \cup {p, b} \cup Kept(solution))
           /\ r' = rc[1]
           /\ c' = rc[2]
           /\ choices' = heap[p].rows[rc[1]][rc[2]]
           /\ vi' = 1
           /\ pc' = "branch"
    /\ UNCHANGED <<moves, use_dfs, mi, b, solution>>

\* `for v in choices` over an int: TypeError ('int' object is not iterable)
PopRaise ==
    /\ pc = "loop"
    /\ ~is_empty(frontier)
    /\ LET p == PopItem(use_dfs, frontier)
           rc == find_most_constrained_cell(heap[p])
       IN  /\ ~goal_test(heap[p])
           /\ ~failure_test(heap[p])
           /\ ~IsList(heap[p].rows[rc[1]][rc[2]])
           /\ Finish([status |-> "raised", addr |-> None])

\* one pass of `for v in choices`: deepcopy, update, push
Branch ==
    /\ pc = "branch"
    /\ vi <= Len(choices.list)
    /\ LET cp == deepcopy(heap, candidate)
       IN  /\ heap' = [cp.heap EXCEPT ![cp.addr] = update(cp.heap[cp.addr], r, c, choices.list[vi])]
           /\ frontier' = push(frontier, cp.addr)
    /\ vi' = vi + 1
    /\ UNCHANGED <<moves, use_dfs, mi, pc, b, candidate, r, c, choices, solution>>

\* the for loop is over: back to the while test
BranchEnd ==
    /\ pc = "branch"
    /\ vi > Len(choices.list)
    /\ pc' = "loop"
    /\ UNCHANGED <<moves, use_dfs, mi, heap, b, frontier, candidate, r, c, choices, vi, solution>>

Next ==
    \/ SeedMove
    \/ CallSearch
    \/ Exhausted
    \/ PopGoal
    \/ PopFailure
    \/ PopExpand
    \/ PopRaise
    \/ Branch
    \/ BranchEnd

Spec == Init /\ [][Next]_vars

\* the caller runs to completion: every enabled step is eventually taken
FairSpec == Spec /\ WF_vars(Next)

(***************************************************************************)
(* Vocabulary of the properties: Sudoku validity, stated on coordinates    *)
(* and digits, independently of the Board's operations.                    *)
(***************************************************************************)
Cells == Idx \X Idx

SameBox(p, q) == p[1] \div box = q[1] \div box /\ p[2] \div box = q[2] \div box

Peer(p, q) == p # q /\ (p[1] = q[1] \/ p[2] = q[2] \/ SameBox(p, q))

At(rows, p) == rows[p[1]][p[2]]

IsAssigned(cell) == "int" \in DOMAIN cell

AssignedCells(rows) == {p \in Cells : IsAssigned(At(rows, p))}

ListCells(rows) == {p \in Cells : IsList(At(rows, p))}

\* the candidate set of a Candidates cell
CandidateSet(cell) == {cell.list[i] : i \in 1 .. Len(cell.list)}

AllAssigned(rows) == \A p \in Cells : IsAssigned(At(rows, p)) /\ At(rows, p).int \in Digits

\* the 20 peers of a cell: {q \in Cells : Peer(p, q)}, cell by cell
PeersOf(p) ==
    ({<<p[1], k>> : k \in Idx}
        \cup {<<k, p[2]>> : k \in Idx}
        \cup {<<(p[1] \div box) * box + i, (p[2] \div box) * box + j>> :
                  i \in 0 .. (box - 1), j \in 0 .. (box - 1)}) \ {p}

\* no two cells of a row, column or subgrid are Assigned the same digit
NoDuplicate(rows) ==
    \A p \in Cells :
        IsAssigned(At(rows, p)) => \A q \in PeersOf(p) : At(rows, q) # At(rows, p)

\* the moves are at pairwise distinct coordinates
DistinctCoords(mvs) ==
    Cardinality({<<mvs[i][1], mvs[i][2]>> : i \in 1 .. Len(mvs)}) = Len(mvs)

\* no two moves put the same digit in the same cell or in cells that are peers
NoPeerRepeat(mvs) ==
    \A i \in 1 .. Len(mvs) : \A j \in 1 .. Len(mvs) :
        (i < j /\ mvs[i][3] = mvs[j][3]) =>
            ~Peer(<<mvs[i][1], mvs[i][2]>>, <<mvs[j][1], mvs[j][2]>>)

KeepsClues(rows, mvs) ==
    \A i \in 1 .. Len(mvs) : rows[mvs[i][1]][mvs[i][2]] = [int |-> mvs[i][3]]

\* the digits no Assigned peer of p holds
FreeDigits(rows, p) ==
    LET taken == {At(rows, q).int : q \in {x \in PeersOf(p) : IsAssigned(At(rows, x))}}
    IN  Digits \ taken

\* the valid completions of a grid: every way to assign its Candidates cells
\* that keeps the Assigned cells and makes all 81 cells a valid Sudoku
RECURSIVE Fill(_)
Fill(rows) ==
    IF ListCells(rows) = {} THEN {rows}
    ELSE LET p == CHOOSE q \in ListCells(rows) : TRUE
         IN  UNION {Fill([rows EXCEPT ![p[1]][p[2]] = [int |-> d]]) :
                        d \in FreeDigits(rows, p)}

Completions(rows) == IF NoDuplicate(rows) THEN Fill(rows) ELSE {}

Searches == {"DFS", "BFS"}

\* the state right after search w returned a board
JustReturned(w) ==
    /\ solution[w].status = "board"
    /\ IF w = "DFS" THEN pc = "seed" /\ ~use_dfs /\ mi = 1 ELSE pc = "done"

ReturnedRows(w) == heap[solution[w].addr].rows

\* C1: for a seed built by assign calls at pairwise distinct coordinates whose
\* clues repeat no digit within a row, column or subgrid, every board DFS or
\* BFS returns has all 81 cells Assigned, no duplicate digit in any row,
\* column or subgrid, and every seed clue at its coordinate.
C1_ReturnedBoardValid ==
    \A w \in Searches :
        JustReturned(w) =>
            \/ /\ AllAssigned(ReturnedRows(w))
               /\ NoDuplicate(ReturnedRows(w))
               /\ KeepsClues(ReturnedRows(w), moves)
            \/ ~(DistinctCoords(moves) /\ NoPeerRepeat(moves))

\* a run on well-formed clues with four cells open, where both searches
\* returned a board and the two boards differ
C1_Witness ==
    /\ pc = "done"
    /\ DistinctCoords(moves) /\ NoPeerRepeat(moves)
    /\ Len(moves) = size * size - 4
    /\ solution.DFS.status = "board" /\ solution.BFS.status = "board"
    /\ ReturnedRows("DFS") # ReturnedRows("BFS")

\* the seed board of the run at hand (both runs seed from the same moves)
SeedRows == heap[b].rows

BothSolved ==
    \A w \in Searches :
        /\ solution[w].status = "board"
        /\ heap[solution[w].addr].num_nums_placed = size * size

\* C2 as stated: for any seed that has a valid completion, DFS and BFS both
\* return a board whose counter is 81, and when the completion is unique the
\* two returned grids are identical.
C2_AsStated ==
    (pc = "done" /\ Completions(SeedRows) # {}) =>
        /\ BothSolved
        /\ Cardinality(Completions(SeedRows)) = 1 => ReturnedRows("DFS") = ReturnedRows("BFS")

\* C2, amended: for a seed built by assign calls at pairwise distinct
\* coordinates that has a valid completion, neither search raises, DFS and BFS
\* both return a board whose counter is 81, and when the completion is unique
\* the two returned grids are identical.
C2_SolvableSeedSolved ==
    (pc \in {"done", "raised"} /\ DistinctCoords(moves) /\ Completions(SeedRows) # {}) =>
        /\ BothSolved
        /\ Cardinality(Completions(SeedRows)) = 1 => ReturnedRows("DFS") = ReturnedRows("BFS")

\* both searches returned the one completion of a seed with four cells open
C2_Witness ==
    /\ pc = "done"
    /\ DistinctCoords(moves)
    /\ Len(moves) = size * size - 4
    /\ Cardinality(Completions(SeedRows)) = 1
    /\ BothSolved
    /\ ReturnedRows("DFS") = ReturnedRows("BFS")
    /\ ReturnedRows("DFS") \in Completions(SeedRows)

\* the boards some variable refers to
Referenced == ({candidate, b} \cup SeqRange(frontier) \cup Kept(solution)) \ {None}

\* C3: a branching step (clone, then assign on the clone) leaves every other
\* board as it was: the popped board, the siblings already pushed, the rest
\* of the frontier and the seed keep their cells, candidate lists and counter,
\* and the clone is a new object pushed on the frontier.
C3_CloneLeavesOthersUnchanged ==
    [][(pc = "branch" /\ vi <= Len(choices.list)) =>
           /\ \A a \in Referenced : a \in DOMAIN heap' /\ heap'[a] = heap[a]
           /\ \E n \in DOMAIN heap' \ DOMAIN heap : frontier' = Append(frontier, n)]_vars

\* two siblings were cloned from a popped board and assigned different digits;
\* the popped board still has its candidate list
C3_Witness ==
    /\ pc = "branch"
    /\ vi = 3
    /\ Len(frontier) >= 2
    /\ heap[frontier[Len(frontier)]].rows[r][c] = [int |-> choices.list[2]]
    /\ heap[frontier[Len(frontier) - 1]].rows[r][c] = [int |-> choices.list[1]]
    /\ heap[candidate].rows[r][c] = choices

\* what holds of a board right after update(row, col, v)
PostAssign(board, row, col, v) ==
    /\ board.rows[row][col] = [int |-> v]
    /\ \A q \in Cells :
           (q[1] = row \/ q[2] = col \/ SameBox(q, <<row, col>>)) =>
               (IsList(At(board.rows, q)) => v \notin CandidateSet(At(board.rows, q)))

\* C4: right after assign(r, c, v), on the seed board or on a clone, cell
\* (r, c) is Assigned(v) and no Candidates cell of row r, column c or the
\* subgrid of (r, c) has v among its candidates.
C4_AssignEliminates ==
    /\ (pc = "seed" /\ mi > 1) =>
           PostAssign(heap[b], moves[mi - 1][1], moves[mi - 1][2], moves[mi - 1][3])
    /\ (pc = "branch" /\ vi > 1) =>
           PostAssign(heap[frontier[Len(frontier)]], r, c, choices.list[vi - 1])

\* the empty board after assign(0, 0, 4): the row peer (0, 1) lost the 4, and
\* so did the subgrid peer (1, 1) and the column peer (8, 0)
C4_Witness ==
    /\ pc = "seed"
    /\ mi = 2
    /\ moves[1] = <<0, 0, 4>>
    /\ heap[b].rows[0][0] = [int |-> 4]
    /\ heap[b].rows[0][1] = [list |-> <<1, 2, 3, 5, 6, 7, 8, 9>>]
    /\ heap[b].rows[1][1] = [list |-> <<1, 2, 3, 5, 6, 7, 8, 9>>]
    /\ heap[b].rows[8][0] = [list |-> <<1, 2, 3, 5, 6, 7, 8, 9>>]
    /\ heap[b].rows[1][3] = [list |-> AllCandidates]

\* a board's counter and its number of Assigned cells
CountMatches(board) == board.num_nums_placed = Cardinality(AssignedCells(board.rows))

\* C5: for moves at pairwise distinct coordinates, after N assign calls the
\* seed's filled_count is N and is its number of Assigned cells; and the
\* counter equals the number of Assigned cells in every board DFS or BFS
\* pops, pushes or returns.
C5_CountIsAssignedCells ==
    \/ /\ \A a \in DOMAIN heap : CountMatches(heap[a])
       /\ pc = "seed" => heap[b].num_nums_placed = mi - 1
    \/ ~DistinctCoords(moves)

\* a search on distinct coordinates has pushed two children, each with one
\* more Assigned cell than the seed's N = Len(moves)
C5_Witness ==
    /\ DistinctCoords(moves)
    /\ pc = "branch"
    /\ vi = 3
    /\ heap[b].num_nums_placed = Len(moves)
    /\ \A i \in 1 .. Len(frontier) :
           /\ heap[frontier[i]].num_nums_placed = Len(moves) + 1
           /\ Cardinality(AssignedCells(heap[frontier[i]].rows)) = Len(moves) + 1

\* position of a cell in the row-major scan
RowMajor(p) == p[1] * size + p[2]

NumCandidates(rows, p) == Cardinality(CandidateSet(At(rows, p)))

\* p is the row-major first among the Candidates cells with the fewest candidates
FirstMinimum(rows, p) ==
    /\ p \in ListCells(rows)
    /\ LET np == NumCandidates(rows, p)
       IN  \A q \in Cells :
               IsList(At(rows, q)) =>
                   LET nq == NumCandidates(rows, q)
                   IN  nq > np \/ (nq = np /\ RowMajor(p) <= RowMajor(q))

\* The boards that changed in the last step: the seed board while it is being
\* seeded, the clone just pushed while branching. Every board the program
\* ever holds is one of these in the state after its last update.
ChangedBoards ==
    (IF pc = "seed" THEN {b} ELSE {})
        \cup (IF pc = "branch" /\ vi > 1 THEN {frontier[Len(frontier)]} ELSE {})

\* C6: on a board with a Candidates cell, most_constrained_cell() returns a
\* Candidates cell of minimum candidate-set size, the row-major first of that
\* size; when some candidate set is empty, it is the row-major first empty one.
C6_MostConstrainedCell ==
    \A a \in ChangedBoards :
        LET rows == heap[a].rows
            rc == find_most_constrained_cell(heap[a])
        IN  (\E q \in Cells : IsList(At(rows, q))) =>
                /\ FirstMinimum(rows, rc)
                /\ \A q \in Cells :
                       At(rows, q) = [list |-> <<>>] =>
                           At(rows, rc) = [list |-> <<>>] /\ RowMajor(rc) <= RowMajor(q)

\* a board whose most constrained cell has an empty candidate set, with a
\* non-empty Candidates cell before it in the scan and a second empty one
\* after it
C6_Witness ==
    \E a \in DOMAIN heap :
        LET rows == heap[a].rows
            rc == find_most_constrained_cell(heap[a])
        IN  /\ At(rows, rc) = [list |-> <<>>]
            /\ \E q \in ListCells(rows) :
                   RowMajor(q) < RowMajor(rc) /\ NumCandidates(rows, q) > 0
            /\ \E q \in ListCells(rows) :
                   RowMajor(q) > RowMajor(rc) /\ NumCandidates(rows, q) = 0

BothAbsent == \A w \in Searches : solution[w].status = "None"

\* C7 as stated: for moves at pairwise distinct coordinates whose clues have
\* no valid completion, DFS and BFS both end by returning None.
C7_AsStated ==
    (pc \in {"done", "raised"} /\ DistinctCoords(moves) /\ Completions(SeedRows) = {}) =>
        BothAbsent

\* the grid of the clues alone: the last move at each coordinate, every other
\* cell open
RECURSIVE PlaceClues(_, _, _)
PlaceClues(rows, mvs, i) ==
    IF i > Len(mvs) THEN rows
    ELSE PlaceClues([rows EXCEPT ![mvs[i][1]][mvs[i][2]] = [int |-> mvs[i][3]]], mvs, i + 1)

ClueGrid(mvs) == PlaceClues(NewBoard.rows, mvs, 1)

\* C7, amended: for moves at pairwise distinct coordinates whose clues repeat
\* no digit within a row, column or subgrid and have no valid completion, each
\* of DFS and BFS ends by returning None (no board, no fault); and whenever a
\* search returns None, it does so from the loop test with the frontier empty.
C7_UnsolvableSeedAbsent ==
    [][\A w \in Searches :
           solution'[w] # solution[w] =>
               /\ solution'[w].status = "None" => (pc = "loop" /\ frontier = <<>>)
               /\ \/ solution'[w].status = "None"
                  \/ ~(/\ DistinctCoords(moves)
                       /\ Completions(ClueGrid(moves)) = {}
                       /\ NoPeerRepeat(moves))]_vars

\* BFS on well-formed clues without completion: DFS has returned None, and
\* BFS has just discarded a contradictory child, which empties the queue
C7_Witness ==
    /\ solution.DFS.status = "None"
    /\ ~use_dfs
    /\ pc = "loop"
    /\ frontier = <<>>
    /\ candidate \notin {None, b}
    /\ \E p \in Cells : At(heap[candidate].rows, p) = [list |-> <<>>]
    /\ DistinctCoords(moves) /\ NoPeerRepeat(moves)
    /\ Completions(ClueGrid(moves)) = {}

\* C8: every run ends both loops, each in one of two ways only: the loop
\* returns the first popped board that passes goal_test, or it exhausts the
\* frontier and returns None.
C8_LoopEndsByReturnOrExhaustion ==
    <>(\A w \in Searches : solution[w].status \in {"board", "None"})

\* What the loops do guarantee: no run pops and pushes forever; every run
\* reaches the end of the second search or the raise that aborts it.
Termination == <>(pc \in {"done", "raised"})

\* C9: no step of DFS or BFS raises: whatever in-range moves seeded the
\* board, pop, goal_test, failure_test, find_most_constrained_cell, the read
\* of the chosen cell, the iteration over it, deepcopy, update and push all
\* complete normally.
C9_NoStepRaises == pc # "raised"

\* C10: failure_test is true exactly of the boards in which some cell is a
\* Candidates cell with an empty candidate set; a board whose cells are all
\* Assigned or non-empty candidate sets is never reported contradictory.
C10_FailureIffEmptyCandidates ==
    \A a \in ChangedBoards :
        /\ failure_test(heap[a]) <=>
               \E p \in Cells :
                   IsList(At(heap[a].rows, p)) /\ CandidateSet(At(heap[a].rows, p)) = {}
        /\ (\A p \in Cells :
                \/ IsAssigned(At(heap[a].rows, p))
                \/ CandidateSet(At(heap[a].rows, p)) # {}) => ~failure_test(heap[a])

\* a clone whose assign emptied the candidate list of a peer: failure_test is
\* true of it and false of the board it was cloned from, which has Assigned
\* cells and cells with a single candidate
C10_Witness ==
    /\ pc = "branch"
    /\ vi > 1
    /\ failure_test(heap[frontier[Len(frontier)]])
    /\ ~failure_test(heap[candidate])
    /\ \E p \in Cells :
           IsList(At(heap[candidate].rows, p)) /\ Len(At(heap[candidate].rows, p).list) = 1
    /\ \E p \in Cells : IsAssigned(At(heap[candidate].rows, p))

\* C11: goal_test is true of a board exactly when its counter is 81, whatever
\* its cells hold: a board with counter 81 and a Candidates cell passes, a
\* board with 81 Assigned cells and another counter does not; and a search
\* returns a popped board exactly when that board's counter is 81.
C11_GoalTestIsCounterOnly ==
    /\ \A a \in DOMAIN heap : goal_test(heap[a]) <=> heap[a].num_nums_placed = 81
    /\ \A w \in Searches :
           solution[w].status = "board" => heap[solution[w].addr].num_nums_placed = 81
    /\ (pc \in {"loop", "branch"} /\ candidate # None) =>
           heap[candidate].num_nums_placed # 81

\* DFS returned a board whose counter is 81 although one of its cells is
\* still a Candidates cell
C11_Witness ==
    /\ solution.DFS.status = "board"
    /\ goal_test(heap[solution.DFS.addr])
    /\ heap[solution.DFS.addr].num_nums_placed = 81
    /\ \E p \in Cells : IsList(At(heap[solution.DFS.addr].rows, p))

\* the other case of C11: a seed with all 81 cells Assigned and counter 82
\* does not pass goal_test
FullBoardNotGoal ==
    /\ pc = "loop"
    /\ AllAssigned(heap[b].rows)
    /\ heap[b].num_nums_placed = 82
    /\ ~goal_test(heap[b])

\* the k-th smallest member of a set of digits
NthSmallest(S, k) == CHOOSE x \in S : Cardinality({y \in S : y < x}) = k - 1

\* what assign(row, col, v) makes of a grid, stated cell by cell
GridAfterAssign(rows, row, col, v) ==
    [i \in Idx |-> [j \in Idx |->
        IF <<i, j>> = <<row, col>> THEN [int |-> v]
        ELSE IF IsList(rows[i][j]) /\ (i = row \/ j = col \/ SameBox(<<i, j>>, <<row, col>>))
             THEN [list |-> SelectSeq(rows[i][j].list, LAMBDA d : d # v)]
             ELSE rows[i][j]]]

\* C12: when a search pops a board that is neither solved nor contradictory,
\* whose most constrained cell (r, c) holds candidate set S, the frontier
\* loses the popped board only; then the k-th pass of the loop pushes one new
\* board, equal to the popped board after assign(r, c, v) for v the k-th
\* smallest member of S, with the popped board's counter plus 1; and the loop
\* ends after exactly |S| pushes, with nothing else pushed.
C12_PushesOneChildPerCandidate ==
    [][/\ (pc = "loop" /\ pc' = "branch") =>
              /\ Len(frontier') = Len(frontier) - 1
              /\ FirstMinimum(heap'[candidate'].rows, <<r', c'>>)
              /\ vi' = 1
       /\ (pc = "branch" /\ pc' = "branch") =>
              LET S == CandidateSet(At(heap[candidate].rows, <<r, c>>))
                  v == NthSmallest(S, vi)
              IN  /\ vi <= Cardinality(S)
                  /\ vi' = vi + 1
                  /\ \E n \in DOMAIN heap' \ DOMAIN heap :
                         /\ frontier' = Append(frontier, n)
                         /\ heap'[n].rows = GridAfterAssign(heap[candidate].rows, r, c, v)
                         /\ heap'[n].num_nums_placed = heap[candidate].num_nums_placed + 1
       /\ (pc = "branch" /\ pc' # "branch") =>
              /\ pc' = "loop"
              /\ frontier' = frontier
              /\ vi - 1 = Cardinality(CandidateSet(At(heap[candidate].rows, <<r, c>>)))]_vars

\* a popped board whose most constrained cell has two candidates has been
\* expanded: the frontier ends with its two children, the smaller digit first
C12_Witness ==
    /\ pc = "branch"
    /\ Cardinality(CandidateSet(At(heap[candidate].rows, <<r, c>>))) = 2
    /\ vi = 3
    /\ Len(frontier) >= 2
    /\ LET S == CandidateSet(At(heap[candidate].rows, <<r, c>>))
           lo == heap[frontier[Len(frontier) - 1]]
           hi == heap[frontier[Len(frontier)]]
       IN  /\ lo.rows[r][c] = [int |-> NthSmallest(S, 1)]
           /\ hi.rows[r][c] = [int |-> NthSmallest(S, 2)]
           /\ lo.rows[r][c].int < hi.rows[r][c].int
           /\ lo.num_nums_placed = heap[candidate].num_nums_placed + 1
           /\ hi.num_nums_placed = heap[candidate].num_nums_placed + 1

\* some Candidates cell of the grid has an empty candidate set
HasEmptyCandidates(rows) ==
    \E p \in Cells : IsList(At(rows, p)) /\ CandidateSet(At(rows, p)) = {}

\* C13: the goal test comes first. A popped board whose counter is 81 is
\* returned at once and ends the search, even when it has an empty candidate
\* set; a popped board that is not solved and has an empty candidate set is
\* discarded: the frontier loses it, no board is created or pushed and the
\* loop goes on. So every board that is expanded, the parent of every board
\* pushed, is neither solved nor contradictory.
C13_GoalBeforeFailure ==
    [][/\ (pc = "loop" /\ frontier # <<>>) =>
              LET p == PopItem(use_dfs, frontier)
              IN  /\ heap[p].num_nums_placed = 81 =>
                         /\ solution'[Which] = [status |-> "board", addr |-> p]
                         /\ pc' \in {"seed", "done"}
                         /\ frontier' = <<>>
                  /\ (heap[p].num_nums_placed # 81 /\ HasEmptyCandidates(heap[p].rows)) =>
                         /\ pc' = "loop"
                         /\ solution' = solution
                         /\ Len(frontier') = Len(frontier) - 1
                         /\ SeqRange(frontier') \subseteq SeqRange(frontier) \ {p}
                         /\ DOMAIN heap' \subseteq DOMAIN heap
       /\ pc' = "branch" =>
              /\ ~HasEmptyCandidates(heap'[candidate'].rows)
              /\ heap'[candidate'].num_nums_placed # 81]_vars

\* DFS popped a board with counter 81 and an empty candidate set, and
\* returned it: the failure test was never applied to it
C13_Witness ==
    /\ solution.DFS.status = "board"
    /\ heap[solution.DFS.addr].num_nums_placed = 81
    /\ HasEmptyCandidates(heap[solution.DFS.addr].rows)
    /\ failure_test(heap[solution.DFS.addr])

\* the other case of C13: a board that is not solved and has an empty
\* candidate set was popped and discarded, and the loop goes on
ContradictoryBoardDiscarded ==
    /\ pc = "loop"
    /\ candidate # None
    /\ HasEmptyCandidates(heap[candidate].rows)
    /\ heap[candidate].num_nums_placed # 81

Counter(a) == heap[a].num_nums_placed

Largest(S) == CHOOSE x \in S : \A y \in S : y <= x

\* C14: the frontier lists its boards in the order they were pushed. In DFS
\* every pop takes the last of them (the most recently pushed one still in
\* the frontier) and leaves the others in place: right after an expansion
\* that is the child for the largest candidate digit, and no board left in
\* the frontier is deeper than the popped one, so the descendants of a child
\* all go before its next sibling. In BFS every pop takes the first (the
\* earliest pushed) and leaves the others in place, the popped board's
\* counter is at least that of the board popped before it, and no board left
\* in the frontier has a smaller counter.
C14_RemovalOrder ==
    [][(pc = "loop" /\ frontier # <<>> /\ pc' # "raised") =>
          LET out == IF solution' # solution THEN solution'[Which].addr ELSE candidate'
              expanded == candidate # None /\ ~HasEmptyCandidates(heap[candidate].rows)
          IN  /\ use_dfs =>
                     /\ out = frontier[Len(frontier)]
                     /\ solution' = solution =>
                            frontier' = SubSeq(frontier, 1, Len(frontier) - 1)
                     /\ expanded =>
                            heap[out].rows =
                                GridAfterAssign(heap[candidate].rows, r, c,
                                    Largest(CandidateSet(At(heap[candidate].rows, <<r, c>>))))
                     /\ \A i \in 1 .. Len(frontier) : Counter(frontier[i]) <= Counter(out)
              /\ ~use_dfs =>
                     /\ out = frontier[1]
                     /\ solution' = solution =>
                            frontier' = SubSeq(frontier, 2, Len(frontier))
                     /\ candidate # None => Counter(candidate) <= Counter(out)
                     /\ \A i \in 1 .. Len(frontier) : Counter(out) <= Counter(frontier[i])]_vars

\* DFS went down below the child for the largest digit while that child's
\* sibling still waits at the bottom of the stack: the board just popped is
\* at least two assignments deeper than the seed, the sibling one
C14_Witness ==
    /\ use_dfs
    /\ pc = "loop"
    /\ candidate # None
    /\ frontier # <<>>
    /\ Counter(frontier[1]) = Counter(b) + 1
    /\ Counter(candidate) >= Counter(b) + 2
    /\ ~HasEmptyCandidates(heap[frontier[1]].rows)

\* the BFS case of C14: the board just popped and the head of the queue are
\* siblings, and the children of the popped board wait behind the sibling
BfsLevelByLevel ==
    /\ ~use_dfs
    /\ pc = "loop"
    /\ candidate # None
    /\ Len(frontier) >= 2
    /\ Counter(frontier[1]) = Counter(candidate)
    /\ Counter(frontier[Len(frontier)]) = Counter(candidate) + 1

InScope(q, row, col) == q[1] = row \/ q[2] = col \/ SameBox(q, <<row, col>>)

\* the frame of assign(row, col, v), from the board before to the board after
AssignFrame(before, after, row, col, v) ==
    /\ after.num_nums_placed = before.num_nums_placed + 1
    /\ DOMAIN after = DOMAIN before
    /\ At(after.rows, <<row, col>>) = [int |-> v]
    /\ \A q \in Cells \ {<<row, col>>} :
           LET old == At(before.rows, q)
               new == At(after.rows, q)
           IN  /\ IsAssigned(old) => new = old
               /\ ~InScope(q, row, col) => new = old
               /\ (IsList(old) /\ InScope(q, row, col)) =>
                      /\ IsList(new)
                      /\ CandidateSet(new) = CandidateSet(old) \ {v}
                      /\ Len(new.list) = Cardinality(CandidateSet(new))
                      /\ \A i \in 1 .. (Len(new.list) - 1) : new.list[i] < new.list[i + 1]

\* C15: assign(r, c, v) changes only cell (r, c), the counter and the
\* candidate sets of the Candidates cells of row r, column c and the subgrid
\* of (r, c): an Assigned peer keeps its digit, a cell out of that row, column
\* and subgrid is unchanged, and an affected cell stays a Candidates cell,
\* even when it becomes empty, whose set lost v and nothing else. It holds of
\* every assign on the seed and of every assign on a clone.
C15_AssignFrame ==
    [][/\ (pc = "seed" /\ mi' = mi + 1) =>
              AssignFrame(heap[b], heap'[b], moves[mi][1], moves[mi][2], moves[mi][3])
       /\ (pc = "branch" /\ vi' = vi + 1) =>
              AssignFrame(heap[candidate], heap'[frontier'[Len(frontier')]],
                          r, c, choices.list[vi])]_vars

\* an assign on a clone has just emptied the candidate set of a peer, which
\* is still a Candidates cell; an Assigned peer and a Candidates cell out of
\* scope are as they were in the popped board
C15_Witness ==
    /\ pc = "branch"
    /\ vi > 1
    /\ LET new == heap[frontier[Len(frontier)]]
           old == heap[candidate]
       IN  /\ new.rows[r][c] = [int |-> choices.list[vi - 1]]
           /\ \E q \in Cells \ {<<r, c>>} :
                  /\ InScope(q, r, c)
                  /\ At(old.rows, q) = [list |-> <<choices.list[vi - 1]>>]
                  /\ At(new.rows, q) = [list |-> <<>>]
           /\ \E q \in Cells \ {<<r, c>>} :
                  InScope(q, r, c) /\ IsAssigned(At(old.rows, q)) /\ At(new.rows, q) = At(old.rows, q)
           /\ \E q \in Cells :
                  ~InScope(q, r, c) /\ IsList(At(old.rows, q)) /\ At(new.rows, q) = At(old.rows, q)

\* a cell neither holds digit d nor lists it as a candidate
Without(cell, d) ==
    IF IsList(cell) THEN \A k \in 1 .. Len(cell.list) : cell.list[k] # d
    ELSE cell.int # d

\* no peer of an Assigned cell is Assigned the same digit, and no peer lists
\* that digit as a candidate: row, column and subgrid of each Assigned cell
PeersConsistent(rows) ==
    \A i \in Idx : \A j \in Idx :
        IsAssigned(rows[i][j]) =>
            LET d == rows[i][j].int
                bi == (i \div box) * box
                bj == (j \div box) * box
            IN  /\ \A k \in Idx : k # j => Without(rows[i][k], d)
                /\ \A k \in Idx : k # i => Without(rows[k][j], d)
                /\ \A m \in 0 .. (box - 1) : \A n \in 0 .. (box - 1) :
                       <<bi + m, bj + n>> # <<i, j>> => Without(rows[bi + m][bj + n], d)

\* C16: for a seed built by moves at pairwise distinct coordinates that
\* repeat no digit among peers, every board a search pops or pushes (the
\* seed, and each clone after its assign) has no two peers Assigned the same
\* digit and no Candidates cell listing a digit Assigned to one of its peers.
C16_BoardsConsistent ==
    \/ \A a \in ChangedBoards : PeersConsistent(heap[a].rows)
    \/ ~(DistinctCoords(moves) /\ NoPeerRepeat(moves))

\* a clone pushed in a search on well-formed clues: the digit just assigned
\* was a candidate of two or more peers in the popped board and is a
\* candidate of none in the clone
C16_Witness ==
    /\ DistinctCoords(moves) /\ NoPeerRepeat(moves)
    /\ pc = "branch"
    /\ vi > 1
    /\ LET new == heap[frontier[Len(frontier)]].rows
           old == heap[candidate].rows
           v == choices.list[vi - 1]
       IN  /\ Cardinality({q \in ListCells(old) \ {<<r, c>>} :
                               Peer(q, <<r, c>>) /\ v \in CandidateSet(At(old, q))}) >= 2
           /\ PeersConsistent(new)
           /\ NoDuplicate(new)
           /\ ListCells(new) # {}

\* C17: for a seed in which two peers are Assigned the same digit, each of
\* DFS and BFS ends in one of two outcomes only: None, or a returned board
\* with counter 81 that still holds a digit twice among peers.
C17_InconsistentClueOutcomes ==
    (pc \in {"done", "raised"} /\ ~NoDuplicate(SeedRows)) =>
        \A w \in Searches :
            \/ solution[w].status = "None"
            \/ /\ solution[w].status = "board"
               /\ heap[solution[w].addr].num_nums_placed = 81
               /\ ~NoDuplicate(ReturnedRows(w))

\* what does hold of such seeds: a search that returns does so with None or
\* with a board of counter 81 that still holds the repeated digit
InconsistentCluesWhenReturning ==
    (pc = "done" /\ ~NoDuplicate(SeedRows)) =>
        \A w \in Searches :
            \/ solution[w].status = "None"
            \/ /\ solution[w].status = "board"
               /\ heap[solution[w].addr].num_nums_placed = 81
               /\ ~NoDuplicate(ReturnedRows(w))

\* the coordinates of the first n moves
CoordsOf(mvs, n) == {<<mvs[i][1], mvs[i][2]>> : i \in 1 .. n}

\* C18: assign does not check for an earlier assignment: every call, on the
\* seed or on a clone, adds exactly 1 to the counter. After n seeding calls
\* the counter is n whatever the coordinates, the number of Assigned cells is
\* the number of different coordinates among them, and a cell assigned twice
\* holds the digit of the later call.
C18_EveryAssignCounts ==
    [][/\ (pc = "seed" /\ mi' = mi + 1) =>
              /\ heap'[b].num_nums_placed = heap[b].num_nums_placed + 1
              /\ heap'[b].num_nums_placed = mi
              /\ Cardinality(AssignedCells(heap'[b].rows)) = Cardinality(CoordsOf(moves, mi))
              /\ At(heap'[b].rows, <<moves[mi][1], moves[mi][2]>>) = [int |-> moves[mi][3]]
       /\ (pc = "branch" /\ vi' = vi + 1) =>
              heap'[frontier'[Len(frontier')]].num_nums_placed =
                  heap[candidate].num_nums_placed + 1]_vars

\* assign(0, 0, 3) then assign(0, 0, 4) on the empty board: the counter is 2,
\* one cell is Assigned, and it holds 4
C18_Witness ==
    /\ pc = "seed"
    /\ mi = 3
    /\ moves[1] = <<0, 0, 3>>
    /\ moves[2] = <<0, 0, 4>>
    /\ heap[b].num_nums_placed = 2
    /\ Cardinality(AssignedCells(heap[b].rows)) = 1
    /\ heap[b].rows[0][0] = [int |-> 4]

\* C19: on a board without a Candidates cell (every cell Assigned),
\* most_constrained_cell() returns (0, 0), the coordinate of an Assigned cell.
C19_FullBoardGivesOrigin ==
    \A a \in ChangedBoards :
        (\A p \in Cells : ~IsList(At(heap[a].rows, p))) =>
            find_most_constrained_cell(heap[a]) = <<0, 0>>

\* the seed after its last move has all 81 cells Assigned, and
\* most_constrained_cell() of it is (0, 0), which holds a digit
C19_Witness ==
    /\ pc = "seed"
    /\ mi = Len(moves) + 1
    /\ AllAssigned(heap[b].rows)
    /\ find_most_constrained_cell(heap[b]) = <<0, 0>>
    /\ IsAssigned(heap[b].rows[0][0])

\* the Assigned cells of a grid are those of the clues, with the clues' digits
HoldsTheClues(rows, mvs) ==
    LET clues == ClueGrid(mvs)
    IN  \A p \in Cells :
            IF IsAssigned(At(clues, p)) THEN At(rows, p) = At(clues, p)
            ELSE IsList(At(rows, p))

\* C20: DFS and BFS never change the seed board they are given. At the call
\* the seed is pushed as it is; from the call to the return its counter is
\* the number of moves and its Assigned cells are the clues; no step of a
\* search changes any of its cells or its counter, since assign is applied to
\* new clones only; and a search returns the seed object itself only at its
\* first pop, when the seed's counter is 81.
C20_SeedNeverMutated ==
    [][/\ (pc = "seed" /\ pc' = "loop") =>
              (heap'[b] = heap[b] /\ frontier' = <<b>> /\ b' = b)
       /\ (pc \in {"loop", "branch"}) =>
              /\ heap[b].num_nums_placed = Len(moves)
              /\ HoldsTheClues(heap[b].rows, moves)
              /\ (pc' # "seed" \/ solution'.DFS.addr = b) =>
                     (b \in DOMAIN heap' /\ heap'[b] = heap[b])
              /\ \A w \in Searches :
                     (solution'[w] # solution[w] /\ solution'[w].addr = b) =>
                         (candidate = None /\ frontier = <<b>> /\ heap[b].num_nums_placed = 81)]_vars

\* a search has popped the seed and pushed two clones of it, each with a
\* digit at (r, c); the seed still has its candidate list there and its
\* counter is the number of moves
C20_Witness ==
    /\ pc = "branch"
    /\ candidate = b
    /\ vi = 3
    /\ Len(frontier) = 2
    /\ IsAssigned(heap[frontier[1]].rows[r][c])
    /\ IsAssigned(heap[frontier[2]].rows[r][c])
    /\ heap[b].rows[r][c] = choices
    /\ IsList(heap[b].rows[r][c])
    /\ heap[b].num_nums_placed = Len(moves)
    /\ HoldsTheClues(heap[b].rows, moves)

\* the other case of C20: the seed object itself was returned, at the first
\* pop, and is as the moves built it
SeedItselfReturned ==
    /\ pc = "done"
    /\ solution.BFS.status = "board"
    /\ solution.BFS.addr = b
    /\ HoldsTheClues(heap[b].rows, moves)
    /\ heap[b].num_nums_placed = Len(moves)

====
